---- MODULE Spec2Model ----
(***************************************************************************)
(* Model of packages/bridge-ui/scripts/vite-plugins/                       *)
(* generateEventIndexerConfig.ts: the vite plugin whose buildStart hook    *)
(* decodes CONFIGURED_EVENT_INDEXER, validates it, assembles               *)
(* src/generated/eventIndexerConfig.ts in memory, saves it, formats it and *)
(* writes the formatted text back.                                         *)
(*                                                                         *)
(* buildStart is an async function: every await (save, formatSourceFile,   *)
(* writeFile) and every call that can throw is a step of its own, so that  *)
(* the file on disk can be observed between the steps.  A write either     *)
(* replaces the whole file or rejects and leaves it as it was.             *)
(***************************************************************************)
EXTENDS Integers, Sequences, FiniteSets, TLC

VARIABLES
    env,         \* process.env: SKIP_ENV_VALDIATION and CONFIGURED_EVENT_INDEXER
    skip,        \* the module constant skip (line 19)
    pc,          \* position of buildStart
    configFile,  \* configuredEventIndexerConfigFile (line 30)
    isValid,     \* isValid (line 45)
    sourceFile,  \* the in-memory ts-morph SourceFile (lines 57-61)
    formatted,   \* formatted (line 65)
    disk,        \* content of the file at outputPath
    error,       \* the step whose error left buildStart, "none" while none did
    clock,       \* what new Date() reads
    run,         \* number of builds started
    preRun,      \* history: disk when this build started
    trace,       \* history: the steps this build has executed, in order
    writes       \* history: the writes this build has made to the file system

vars == <<env, skip, pc, configFile, isValid, sourceFile, formatted, disk,
          error, clock, run, preRun, trace, writes>>

(***************************************************************************)
(* Bounds.                                                                 *)
(***************************************************************************)
MaxRuns == 2
MaxEntries == 2

(***************************************************************************)
(* Program constants.                                                      *)
(***************************************************************************)
pluginName == "generateEventIndexerConfig"

outputPath == "src/generated/eventIndexerConfig.ts"

warning == "// WARNING: Do not change this file manually as it will be overwritten"

(***************************************************************************)
(* JavaScript values.  undefined, null, numbers, strings, plain objects    *)
(* and arrays are tagged records; an object's properties are in props.     *)
(***************************************************************************)
Undefined == [t |-> "undefined"]

Null == [t |-> "null"]

Num(n) == [t |-> "number", n |-> n]

Str(s) == [t |-> "string", s |-> s]

Arr(items) == [t |-> "array", items |-> items]

Obj(props) == [t |-> "object", props |-> props]

\* !v
Falsy(v) ==
    \/ v.t \in {"undefined", "null"}
    \/ v.t = "number" /\ v.n = 0
    \/ v.t = "string" /\ v.s = ""

\* Array.isArray(v)
IsArray(v) == v.t = "array"

\* v.name, for v that is neither null nor undefined; a property an object
\* lacks reads as undefined, and is held in props as Undefined
Get(v, name) ==
    IF v.t = "object" /\ name \in DOMAIN v.props THEN v.props[name] ELSE Undefined

\* v.name throws a TypeError
GetThrows(v) == v.t \in {"undefined", "null"}

(***************************************************************************)
(* String rendering, as Number.prototype.toString and Array.prototype.join *)
(* do it.                                                                  *)
(***************************************************************************)
Digits == <<"0", "1", "2", "3", "4", "5", "6", "7", "8", "9">>

RECURSIVE NatToString(_)
NatToString(n) ==
    IF n < 10 THEN Digits[n + 1]
    ELSE NatToString(n \div 10) \o Digits[(n % 10) + 1]

NumberToString(n) == IF n < 0 THEN "-" \o NatToString(-n) ELSE NatToString(n)

RECURSIVE JoinFrom(_, _, _)
JoinFrom(strs, sep, i) ==
    IF i > Len(strs) THEN ""
    ELSE IF i = Len(strs) THEN strs[i]
    ELSE strs[i] \o sep \o JoinFrom(strs, sep, i + 1)

Join(strs, sep) == JoinFrom(strs, sep, 1)

(***************************************************************************)
(* The literal formatter (lines 135-141).  An EventIndexerConfig is a      *)
(* record with a url and, when present, chainIds.                          *)
(***************************************************************************)
\* Variant: the identifiers joined without the space.
formatEventIndexerConfigJoinedTight(config) ==
    "{chainIds: ["
        \o (IF "chainIds" \in DOMAIN config
            THEN Join([i \in 1..Len(config.chainIds) |->
                          NumberToString(config.chainIds[i])], ",")
            ELSE "")
        \o "], url: \"" \o config.url \o "\"}"

formatEventIndexerConfigToTsLiteral(config) ==
    "{chainIds: ["
        \o (IF "chainIds" \in DOMAIN config
            THEN Join([i \in 1..Len(config.chainIds) |->
                          NumberToString(config.chainIds[i])], ", ")
            ELSE "")
        \o "], url: \"" \o config.url \o "\"}"

\* Variant: the first entry is left out.
formatObjectSkippingFirst(indexer) ==
    "[" \o Join([i \in 1..(Len(indexer) - 1) |->
                    formatEventIndexerConfigToTsLiteral(indexer[i + 1])], ", ")
        \o "]"

formatObjectToTsLiteral(indexer) ==
    "[" \o Join([i \in 1..Len(indexer) |->
                    formatEventIndexerConfigToTsLiteral(indexer[i])], ", ")
        \o "]"

(***************************************************************************)
(* The environment.  A value of process.env is undefined or a string.  A   *)
(* string that is the base64 text of something carries what the decoder    *)
(* makes of it: a JSON value, or Malformed when the text does not parse.   *)
(***************************************************************************)
Malformed == [t |-> "malformed"]

Base64(label, json) == [t |-> "string", s |-> label, of |-> json]

EntryPool ==
    { [chainIds |-> <<1, 10>>, url |-> "https://x.test"],
      [url |-> "https://y.test"],
      [chainIds |-> <<>>, url |-> "https://z.test/?q=\"1\""] }

RECURSIVE SeqsUpTo(_, _)
SeqsUpTo(S, n) ==
    IF n = 0 THEN {<<>>}
    ELSE LET shorter == SeqsUpTo(S, n - 1)
         IN  shorter \cup {Append(q, e) : q \in {r \in shorter : Len(r) = n - 1}, e \in S}

\* The JSON documents CONFIGURED_EVENT_INDEXER may encode.
Payloads ==
    {Null, Num(5)}
        \cup {Obj([configuredEventIndexer |-> v]) :
                 v \in {Undefined, Null, Num(0), Str("x"),
                        Obj([configuredEventIndexer |-> Undefined])}}
        \cup {Obj([configuredEventIndexer |-> Arr(items)]) :
                 items \in SeqsUpTo(EntryPool, MaxEntries)}

SkipValues == {Undefined, Str("true"), Str("1")}

IndexerValues ==
    {Undefined, Str(""), Base64("!", Malformed)}
        \cup {Base64("e30=", p) : p \in Payloads}

(***************************************************************************)
(* The helpers imported from ../utils (lines 9-12).                        *)
(***************************************************************************)
\* decodeBase64ToJson(str) throws: str is not the base64 text of anything (the
\* empty string that line 42 puts for a missing value is not), or what it
\* encodes does not parse
decodeBase64ToJsonThrows(str) == "of" \notin DOMAIN str \/ str.of = Malformed

\* decodeBase64ToJson(str), when it returns
decodeBase64ToJson(str) == str.of

\* validateJsonAgainstSchema(json, schema) yields a boolean; which documents
\* the schema accepts is not decided here.
validateJsonAgainstSchema(json) == BOOLEAN

\* formatSourceFile(tsFilePath): the formatted text of the file it reads.
\* Formatting changes the layout of a text and not what it declares: the
\* formatted text is held as the source it is the formatting of, marked
\* formatted.
formatSourceFile(content) == [content EXCEPT !.formatted = TRUE]

(***************************************************************************)
(* Files.  The file at outputPath is missing, holds text this plugin did   *)
(* not write, or holds a generated source file, formatted or not.          *)
(***************************************************************************)
NoFile == [kind |-> "none"]

Foreign == [kind |-> "other"]

\* the text sourceFile.save() writes for the in-memory file sf
Text(sf) == [kind |-> "ts", src |-> sf, formatted |-> FALSE]

NoSourceFile == [header |-> <<>>, imports |-> <<>>, statements |-> <<>>]

(***************************************************************************)
(* Source-file assembly (lines 53-61, 75-133).                             *)
(***************************************************************************)
\* `// Generated by ${pluginName} on ${new Date().toLocaleString()}`
notification(now) == [generatedBy |-> pluginName, on |-> now]

\* Variant: the file already at the path is opened and added to.
createSourceFileKeepingExisting(existing, header) ==
    IF existing.kind = "ts"
    THEN [header |-> header, imports |-> existing.src.imports,
          statements |-> existing.src.statements]
    ELSE [header |-> header, imports |-> <<>>, statements |-> <<>>]

\* project.createSourceFile(tsFilePath, text, { overwrite: true }): a new
\* in-memory file holding the given text, whatever the path holds.
createSourceFile(existing, header) ==
    [header |-> header, imports |-> <<>>, statements |-> <<>>]

storeTypesAndEnums(sf) ==
    [sf EXCEPT !.imports =
        Append(@, [namedImports |-> <<"EventIndexerConfig">>,
                   moduleSpecifier |-> "$libs/eventIndexer",
                   isTypeOnly |-> TRUE])]

variableStatement(initializer) ==
    [declarationKind |-> "const",
     name |-> "configuredEventIndexer",
     initializer |-> initializer,
     type |-> "EventIndexerConfig[]",
     isExported |-> TRUE]

\* buildEventIndexerConfig throws (lines 96-102)
buildEventIndexerConfigThrows(skipped, indexer) ==
    /\ ~skipped
    /\ \/ GetThrows(indexer)
       \/ Falsy(Get(indexer, "configuredEventIndexer"))
       \/ ~IsArray(Get(indexer, "configuredEventIndexer"))

\* Variant: nothing is declared when skip is set.
buildEventIndexerConfigWithoutElse(skipped, sf, indexer) ==
    IF skipped THEN sf
    ELSE [sf EXCEPT !.statements =
            Append(@, variableStatement(
                formatObjectToTsLiteral(Get(indexer, "configuredEventIndexer").items)))]

\* buildEventIndexerConfig, when it returns (lines 103-132)
buildEventIndexerConfig(skipped, sf, indexer) ==
    [sf EXCEPT !.statements =
        Append(@, variableStatement(
            IF ~skipped
            THEN formatObjectToTsLiteral(Get(indexer, "configuredEventIndexer").items)
            ELSE "[]"))]

(***************************************************************************)
(* Steps of buildStart, named as the steps of the build are named.         *)
(***************************************************************************)
Running == {"start", "decode", "validate", "build", "save", "format", "rewrite"}

Ended == {"done", "aborted"}

Step(name) == trace' = Append(trace, name)

Throw(name) == pc' = "aborted" /\ error' = name

Init ==
    /\ env = [SKIP_ENV_VALDIATION |-> Undefined, CONFIGURED_EVENT_INDEXER |-> Undefined]
    /\ skip = FALSE
    /\ pc = "idle"
    /\ configFile = Undefined
    /\ isValid = FALSE
    /\ sourceFile = NoSourceFile
    /\ formatted = NoFile
    /\ disk \in {NoFile, Foreign}
    /\ error = "none"
    /\ clock = 0
    /\ run = 0
    /\ preRun = disk
    /\ trace = <<>>
    /\ writes = <<>>

\* A build starts: the module is evaluated (lines 14-23) in some environment
\* and the build tool calls buildStart (lines 28-30).  Time has passed since
\* the build before it.
LoadModule ==
    /\ pc = "idle"
    /\ run < MaxRuns
    /\ \E s \in SkipValues, c \in IndexerValues :
          /\ env' = [SKIP_ENV_VALDIATION |-> s, CONFIGURED_EVENT_INDEXER |-> c]
          /\ skip' = (s = Str("true"))
    /\ clock' = clock + 1
    /\ run' = run + 1
    /\ pc' = "start"
    /\ preRun' = disk
    /\ UNCHANGED <<configFile, isValid, sourceFile, formatted, disk, error, trace,
                   writes>>

\* The build is over, buildStart having returned or thrown: the process and
\* what it held in memory are gone, the file stays.
Exit ==
    /\ pc \in Ended
    /\ env' = [SKIP_ENV_VALDIATION |-> Undefined, CONFIGURED_EVENT_INDEXER |-> Undefined]
    /\ skip' = FALSE
    /\ pc' = "idle"
    /\ configFile' = Undefined
    /\ isValid' = FALSE
    /\ sourceFile' = NoSourceFile
    /\ formatted' = NoFile
    /\ error' = "none"
    /\ preRun' = disk
    /\ trace' = <<>>
    /\ writes' = <<>>
    /\ UNCHANGED <<disk, clock, run>>

\* lines 32-33
UseEmpty ==
    /\ pc = "start"
    /\ skip
    /\ configFile' = Str("")
    /\ pc' = "build"
    /\ Step("use-empty")
    /\ UNCHANGED <<env, skip, isValid, sourceFile, formatted, disk, error, clock,
                   run, preRun, writes>>

\* Variant: the variable is not required.
RequireEnvWithoutCheck ==
    /\ pc = "start"
    /\ ~skip
    /\ pc' = "decode"
    /\ Step("require-env")
    /\ UNCHANGED <<env, skip, configFile, isValid, sourceFile, formatted, disk,
                   error, clock, run, preRun, writes>>

\* lines 34-39
RequireEnv ==
    /\ pc = "start"
    /\ ~skip
    /\ IF Falsy(env.CONFIGURED_EVENT_INDEXER)
       THEN Throw("require-env")
       ELSE pc' = "decode" /\ UNCHANGED error
    /\ Step("require-env")
    /\ UNCHANGED <<env, skip, configFile, isValid, sourceFile, formatted, disk,
                   clock, run, preRun, writes>>

\* line 42
Decode ==
    /\ pc = "decode"
    /\ IF decodeBase64ToJsonThrows(env.CONFIGURED_EVENT_INDEXER)
       THEN Throw("decode") /\ UNCHANGED configFile
       ELSE /\ configFile' = decodeBase64ToJson(env.CONFIGURED_EVENT_INDEXER)
            /\ pc' = "validate"
            /\ UNCHANGED error
    /\ Step("decode")
    /\ UNCHANGED <<env, skip, isValid, sourceFile, formatted, disk, clock, run,
                   preRun, writes>>

\* Variant: the verdict is computed and not acted on.
ValidateIgnoringVerdict ==
    /\ pc = "validate"
    /\ isValid' \in validateJsonAgainstSchema(configFile)
    /\ pc' = "build"
    /\ Step("validate")
    /\ UNCHANGED <<env, skip, configFile, sourceFile, formatted, disk, error,
                   clock, run, preRun, writes>>

\* lines 45-48
Validate ==
    /\ pc = "validate"
    /\ isValid' \in validateJsonAgainstSchema(configFile)
    /\ IF ~isValid' THEN Throw("validate") ELSE pc' = "build" /\ UNCHANGED error
    /\ Step("validate")
    /\ UNCHANGED <<env, skip, configFile, sourceFile, formatted, disk, clock, run,
                   preRun, writes>>

\* the file system takes the write of content to path
WriteFile(path, content) ==
    /\ disk' = content
    /\ writes' = Append(writes, [path |-> path, content |-> content])

\* Variant: the new file is saved as soon as it is created.
BuildContentSavingEarly ==
    /\ pc = "build"
    /\ WriteFile(outputPath,
                 Text(createSourceFile(disk, <<notification(clock), warning>>)))
    /\ IF buildEventIndexerConfigThrows(skip, configFile)
       THEN /\ sourceFile' =
                   storeTypesAndEnums(
                       createSourceFile(disk, <<notification(clock), warning>>))
            /\ Throw("build-content")
       ELSE /\ sourceFile' =
                   buildEventIndexerConfig(skip,
                       storeTypesAndEnums(
                           createSourceFile(disk, <<notification(clock), warning>>)),
                       configFile)
            /\ pc' = "save"
            /\ UNCHANGED error
    /\ Step("build-content")
    /\ UNCHANGED <<env, skip, configFile, isValid, formatted, clock, run, preRun>>

\* lines 51-61
BuildContent ==
    /\ pc = "build"
    /\ IF buildEventIndexerConfigThrows(skip, configFile)
       THEN /\ sourceFile' =
                   storeTypesAndEnums(
                       createSourceFile(disk, <<notification(clock), warning>>))
            /\ Throw("build-content")
       ELSE /\ sourceFile' =
                   buildEventIndexerConfig(skip,
                       storeTypesAndEnums(
                           createSourceFile(disk, <<notification(clock), warning>>)),
                       configFile)
            /\ pc' = "save"
            /\ UNCHANGED error
    /\ Step("build-content")
    /\ UNCHANGED <<env, skip, configFile, isValid, formatted, disk, clock, run,
                   preRun, writes>>

\* Variant: a failed save is tried once more.
SaveRetryingOnce ==
    /\ pc = "save"
    /\ \/ WriteFile(outputPath, Text(sourceFile)) /\ pc' = "format" /\ UNCHANGED error
       \/ /\ "write" \notin {trace[i] : i \in 1..Len(trace)}
          /\ pc' = "save"
          /\ UNCHANGED <<error, disk, writes>>
       \/ /\ "write" \in {trace[i] : i \in 1..Len(trace)}
          /\ Throw("write")
          /\ UNCHANGED <<disk, writes>>
    /\ Step("write")
    /\ UNCHANGED <<env, skip, configFile, isValid, sourceFile, formatted, clock,
                   run, preRun>>

\* line 63
Save ==
    /\ pc = "save"
    /\ \/ WriteFile(outputPath, Text(sourceFile)) /\ pc' = "format" /\ UNCHANGED error
       \/ Throw("write") /\ UNCHANGED <<disk, writes>>
    /\ Step("write")
    /\ UNCHANGED <<env, skip, configFile, isValid, sourceFile, formatted, clock,
                   run, preRun>>

\* Variant: a failed format removes the file that was saved.
FormatRemovingFileOnFailure ==
    /\ pc = "format"
    /\ \/ /\ formatted' = formatSourceFile(disk)
          /\ pc' = "rewrite"
          /\ UNCHANGED <<error, disk>>
       \/ Throw("format") /\ disk' = NoFile /\ UNCHANGED formatted
    /\ Step("format")
    /\ UNCHANGED <<env, skip, configFile, isValid, sourceFile, clock, run,
                   preRun, writes>>

\* line 65
Format ==
    /\ pc = "format"
    /\ \/ formatted' = formatSourceFile(disk) /\ pc' = "rewrite" /\ UNCHANGED error
       \/ Throw("format") /\ UNCHANGED formatted
    /\ Step("format")
    /\ UNCHANGED <<env, skip, configFile, isValid, sourceFile, disk, clock, run,
                   preRun, writes>>

\* Variant: the text written back is the assembled text, not the formatted.
RewriteUnformatted ==
    /\ pc = "rewrite"
    /\ \/ WriteFile(outputPath, Text(sourceFile)) /\ pc' = "done" /\ UNCHANGED error
       \/ Throw("rewrite") /\ UNCHANGED <<disk, writes>>
    /\ Step("rewrite")
    /\ UNCHANGED <<env, skip, configFile, isValid, sourceFile, formatted, clock,
                   run, preRun>>

\* line 69
Rewrite ==
    /\ pc = "rewrite"
    /\ \/ WriteFile(outputPath, formatted) /\ pc' = "done" /\ UNCHANGED error
       \/ Throw("rewrite") /\ UNCHANGED <<disk, writes>>
    /\ Step("rewrite")
    /\ UNCHANGED <<env, skip, configFile, isValid, sourceFile, formatted, clock,
                   run, preRun>>

Next ==
    \/ LoadModule
    \/ Exit
    \/ UseEmpty
    \/ RequireEnv
    \/ Decode
    \/ Validate
    \/ BuildContent
    \/ Save
    \/ Format
    \/ Rewrite

Spec == Init /\ [][Next]_vars

\* Every awaited call settles and every synchronous step returns or throws:
\* a build that has started keeps taking its steps.
FairSpec == Spec /\ WF_vars(Next)

(***************************************************************************)
(* Vocabulary of the properties.                                           *)
(***************************************************************************)
Range(seq) == {seq[i] : i \in 1..Len(seq)}

\* a build is under way or has just ended
InRun == pc \in Running \cup Ended

\* the in-memory file holds the whole generated text
Built == pc \in {"save", "format", "rewrite", "done"}
             \/ (pc = "aborted" /\ error \in {"write", "format", "rewrite"})

\* the decoded document has a configuredEventIndexer array
HasIndexerArray(json) ==
    json.t = "object" /\ json.props.configuredEventIndexer.t = "array"

\* the entries of the decoded document
InputEntries == configFile.props.configuredEventIndexer.items

\* the initializer of the constant the in-memory file declares
Literal == sourceFile.statements[1].initializer

\* header comments, one type-only import, one exported constant
Complete(sf) ==
    /\ Len(sf.header) = 2
    /\ sf.header[2] = warning
    /\ Len(sf.imports) = 1
    /\ sf.imports[1].isTypeOnly
    /\ Len(sf.statements) = 1
    /\ sf.statements[1].name = "configuredEventIndexer"
    /\ sf.statements[1].isExported

(***************************************************************************)
(* C1: when skip is not set and CONFIGURED_EVENT_INDEXER is absent, the    *)
(* build can only throw at the require-env step: it never reaches done,    *)
(* writes nothing, and the output file keeps its content from before the   *)
(* build.                                                                  *)
(***************************************************************************)
C1_MissingEnvThrowsBeforeWrite ==
    (InRun /\ ~skip /\ env.CONFIGURED_EVENT_INDEXER = Undefined) =>
        /\ pc \in {"start", "aborted"}
        /\ pc = "aborted" => error = "require-env"
        /\ writes = <<>>
        /\ disk = preRun

C1_Witness ==
    /\ pc = "aborted"
    /\ error = "require-env"
    /\ ~skip
    /\ env.CONFIGURED_EVENT_INDEXER = Undefined
    /\ preRun.kind = "ts"

(***************************************************************************)
(* C2: with SKIP_ENV_VALDIATION = 'true', a build that completes leaves    *)
(* the one exported constant configuredEventIndexer initialised to [],     *)
(* whatever CONFIGURED_EVENT_INDEXER holds, and in no state of such a      *)
(* build has the variable been required, decoded or validated.             *)
(***************************************************************************)
C2_SkipAlwaysEmpty ==
    (InRun /\ env.SKIP_ENV_VALDIATION = Str("true")) =>
        /\ Range(trace) \cap {"require-env", "decode", "validate"} = {}
        /\ configFile \in {Undefined, Str("")}
        /\ pc = "done" =>
              /\ disk.kind = "ts"
              /\ Len(disk.src.statements) = 1
              /\ disk.src.statements[1].name = "configuredEventIndexer"
              /\ disk.src.statements[1].isExported
              /\ disk.src.statements[1].initializer = "[]"

C2_Witness ==
    /\ pc = "done"
    /\ env.SKIP_ENV_VALDIATION = Str("true")
    /\ env.CONFIGURED_EVENT_INDEXER = Base64("!", Malformed)
    /\ disk.src.statements[1].initializer = "[]"

(***************************************************************************)
(* C3: with skip not set, a build whose decoding fails or whose validation *)
(* yields false ends in an error without a write, the file keeping its     *)
(* content; and whenever a write has happened, decoding and validation     *)
(* had both succeeded before it.                                           *)
(***************************************************************************)
C3_WriteOnlyAfterValidation ==
    /\ error \in {"decode", "validate"} =>
          /\ pc = "aborted"
          /\ ~skip
          /\ writes = <<>>
          /\ disk = preRun
    /\ (InRun /\ ~skip /\ (writes # <<>> \/ disk # preRun)) =>
          /\ SubSeq(trace, 1, 3) = <<"require-env", "decode", "validate">>
          /\ ~decodeBase64ToJsonThrows(env.CONFIGURED_EVENT_INDEXER)
          /\ isValid

C3_Witness ==
    /\ pc = "aborted"
    /\ error = "validate"
    /\ HasIndexerArray(configFile)
    /\ preRun.kind = "ts"
    /\ disk = preRun

(***************************************************************************)
(* C4: with skip not set, a decoded document that passed validation and    *)
(* whose configuredEventIndexer is missing or not an array makes           *)
(* buildEventIndexerConfig throw before the first write: the build ends in *)
(* an error with the file unchanged.                                       *)
(***************************************************************************)
C4_ShapeErrorBeforeWrite ==
    (InRun /\ ~skip /\ isValid /\ ~HasIndexerArray(configFile)) =>
        /\ pc \in {"build", "aborted"}
        /\ pc = "aborted" => error = "build-content"
        /\ writes = <<>>
        /\ disk = preRun

C4_Witness ==
    /\ pc = "aborted"
    /\ error = "build-content"
    /\ configFile = Obj([configuredEventIndexer |-> Str("x")])
    /\ preRun.kind = "ts"
    /\ disk = preRun

(***************************************************************************)
(* C5: for a valid document with n entries the array literal bound to the  *)
(* constant is "[", then the rendering of entry 1, ", ", the rendering of  *)
(* entry 2, ... the rendering of entry n, then "]": n renderings, the i-th *)
(* that of the i-th entry, nothing dropped, repeated or reordered; no      *)
(* entries render as [].  The literal is cut at the offsets the entries'   *)
(* renderings give.                                                        *)
(***************************************************************************)
Rendered(i) == formatEventIndexerConfigToTsLiteral(InputEntries[i])

RECURSIVE OffsetOf(_)
\* where the i-th rendering starts in the literal
OffsetOf(i) == IF i = 1 THEN 2 ELSE OffsetOf(i - 1) + Len(Rendered(i - 1)) + 2

EntriesInOrder(lit, n) ==
    /\ SubSeq(lit, 1, 1) = "["
    /\ SubSeq(lit, Len(lit), Len(lit)) = "]"
    /\ Len(lit) = (IF n = 0 THEN 2 ELSE OffsetOf(n) + Len(Rendered(n)))
    /\ \A i \in 1..n :
          SubSeq(lit, OffsetOf(i), OffsetOf(i) + Len(Rendered(i)) - 1) = Rendered(i)
    /\ \A i \in 2..n :
          SubSeq(lit, OffsetOf(i) - 2, OffsetOf(i) - 1) = ", "

C5_OneEntryPerInputInOrder ==
    (Built /\ ~skip) =>
        /\ HasIndexerArray(configFile)
        /\ EntriesInOrder(Literal, Len(InputEntries))
        /\ InputEntries = <<>> => Literal = "[]"
        /\ writes # <<>> => writes[1].content.src.statements[1].initializer = Literal

C5_Witness ==
    /\ pc = "done"
    /\ ~skip
    /\ Len(InputEntries) = MaxEntries
    /\ InputEntries[1] # InputEntries[MaxEntries]
    /\ writes[1].content.src.statements[1].initializer = Literal

(***************************************************************************)
(* C6: an entry renders as {chainIds: [<ids>], url: "<url>"}: <ids> the    *)
(* chain identifiers in decimal, in their order, joined by ", ", and empty *)
(* when the entry has none or an empty list; <url> the url text unchanged  *)
(* between double quotes.  The document with the one entry chainIds        *)
(* [1, 10], url https://x.test is written as                               *)
(* [{chainIds: [1, 10], url: "https://x.test"}].                           *)
(***************************************************************************)
RECURSIVE IdList(_)
IdList(ids) ==
    IF ids = <<>> THEN ""
    ELSE IF Len(ids) = 1 THEN ToString(ids[1])
    ELSE IdList(SubSeq(ids, 1, Len(ids) - 1)) \o ", " \o ToString(ids[Len(ids)])

ExpectedEntry(e) ==
    "{chainIds: [" \o (IF "chainIds" \in DOMAIN e THEN IdList(e.chainIds) ELSE "")
        \o "], url: \"" \o e.url \o "\"}"

C6_EntryRendering ==
    (Built /\ ~skip) =>
        /\ \A i \in 1..Len(InputEntries) : Rendered(i) = ExpectedEntry(InputEntries[i])
        /\ Len(InputEntries) = 1 => Literal = "[" \o ExpectedEntry(InputEntries[1]) \o "]"
        /\ InputEntries = <<[chainIds |-> <<1, 10>>, url |-> "https://x.test"]>> =>
              Literal = "[{chainIds: [1, 10], url: \"https://x.test\"}]"
        /\ InputEntries = <<[url |-> "https://y.test"]>> =>
              Literal = "[{chainIds: [], url: \"https://y.test\"}]"

C6_Witness ==
    /\ pc = "done"
    /\ ~skip
    /\ InputEntries = <<[chainIds |-> <<1, 10>>, url |-> "https://x.test"]>>
    /\ disk.src.statements[1].initializer = "[{chainIds: [1, 10], url: \"https://x.test\"}]"

(***************************************************************************)
(* C7: a build that completes on top of a file an earlier build generated  *)
(* leaves a file with exactly one declaration of configuredEventIndexer,   *)
(* initialised to the rendering of this build's input and nothing of the   *)
(* earlier one; when the earlier file already held that value, the         *)
(* declaration is the same as before.                                      *)
(***************************************************************************)
ThisInitializer ==
    IF skip THEN "[]" ELSE formatObjectToTsLiteral(InputEntries)

C7_OverwriteNoAccumulation ==
    (pc = "done" /\ preRun.kind = "ts") =>
        /\ disk.kind = "ts"
        /\ Complete(disk.src)
        /\ disk.src.statements = <<variableStatement(ThisInitializer)>>
        /\ (Len(preRun.src.statements) = 1
              /\ preRun.src.statements[1].initializer = ThisInitializer) =>
              disk.src.statements = preRun.src.statements

C7_Witness ==
    /\ pc = "done"
    /\ ~skip
    /\ preRun.kind = "ts"
    /\ preRun.formatted
    /\ Len(preRun.src.statements[1].initializer) > 2
    /\ Len(InputEntries) > 0
    /\ preRun.src.statements[1].initializer # disk.src.statements[1].initializer
    /\ disk.src.statements = <<variableStatement(ThisInitializer)>>

(***************************************************************************)
(* C8: a build that reaches done has run (use-empty when skip is set, else *)
(* require-env, decode, validate), build-content, write, format, rewrite,  *)
(* in that order and once each; it has written outputPath exactly twice,   *)
(* first the assembled text and then the formatted text, the formatted     *)
(* text having been made while exactly the first write had happened; and   *)
(* the file holds the formatted text.                                      *)
(***************************************************************************)
C8_LinearOrderTwoWrites ==
    /\ pc = "done" =>
          /\ trace = (IF skip THEN <<"use-empty">>
                      ELSE <<"require-env", "decode", "validate">>)
                         \o <<"build-content", "write", "format", "rewrite">>
          /\ Len(writes) = 2
          /\ writes[1] = [path |-> outputPath, content |-> Text(sourceFile)]
          /\ writes[2].path = outputPath
          /\ writes[2].content = formatted
          /\ writes[2].content.formatted
          /\ writes[2].content.src = sourceFile
          /\ disk = writes[2].content
    /\ pc = "rewrite" =>
          /\ Len(writes) = 1
          /\ formatted.formatted
          /\ formatted.src = writes[1].content.src
    /\ pc = "format" => Len(writes) = 1 /\ ~disk.formatted

C8_Witness ==
    /\ pc = "done"
    /\ ~skip
    /\ Len(trace) = 7
    /\ Len(writes) = 2
    /\ disk.formatted

NoStepTwice == \A i, j \in 1..Len(trace) : trace[i] = trace[j] => i = j

FailureIsTerminal ==
    /\ (pc = "aborted") <=> (error # "none")
    /\ pc = "aborted" => trace # <<>> /\ trace[Len(trace)] = error
    /\ NoStepTwice

\* after a failure nothing of the build runs: the process ends
AbortedOnlyExits ==
    pc = "aborted" => (pc' = "idle" /\ disk' = disk /\ run' = run)

\* a build moves by one step at a time, forward
OneStepAtATime ==
    pc \in Running => (pc' \in Running \cup Ended /\ Len(trace') = Len(trace) + 1)

C9_NoRetryNoRecovery ==
    /\ []FailureIsTerminal
    /\ [][AbortedOnlyExits]_vars
    /\ [][OneStepAtATime]_vars
    /\ [](pc \in Running => <>(pc \in Ended))

C9_Witness ==
    /\ pc = "aborted"
    /\ error = "rewrite"
    /\ Len(writes) = 1
    /\ NoStepTwice

====
